---- MODULE Spec2Model ----
(***************************************************************************)
(* A state-machine model of mongo::ParsedDelete                            *)
(* (src/mongo/db/ops/parsed_delete.cpp): one ParsedDelete instance, built  *)
(* from a DeleteRequest and a collection, and driven by an arbitrary       *)
(* caller through parseRequest(), parseQueryToCQ(), hasParsedQuery(),      *)
(* releaseParsedQuery(), yieldPolicy(),                                    *)
(* isEligibleForArbitraryTimeseriesDelete() and getRequest().              *)
(*                                                                         *)
(* The collaborators that live outside parsed_delete.cpp (the collation    *)
(* resolver, timeseries::getMatchExprsForWrites, CanonicalQuery) are       *)
(* modelled by their interface: the resolver and the split are functions   *)
(* of their inputs (what the split answers for the instance's predicate    *)
(* and collection is chosen once, from a small set), the canonicalizer     *)
(* returns a value chosen from a small set on every call.                  *)
(***************************************************************************)
EXTENDS Integers, Sequences, FiniteSets, TLC

\* The value at which the counts of parseRequest()/parseQueryToCQ() calls
\* and of stored canonicalizer results stop growing: MaxParses stands for
\* "MaxParses or more". The calls themselves are never disabled.
MaxParses == 2

\* A null pointer (std::unique_ptr / intrusive_ptr holding nothing).
NULL == [tag |-> "null"]

----------------------------------------------------------------------------
(* BSON objects are sequences; BSONObj::isEmpty() is "has no element".     *)

isEmpty(obj) == Len(obj) = 0

IdEq == [field |-> "_id", op |-> "eq"]
AEq  == [field |-> "a", op |-> "eq"]

\* The match predicates a request may carry: one clause per top-level element.
Queries == { <<IdEq>>, <<IdEq, AEq>> }

Sorts == { <<>>, <<"a">> }
Projections == { <<>>, <<"a">> }
Collations == { <<>>, <<"en">> }
Hints == { <<"a_1">> }
YieldPolicies == { "INTERRUPT_ONLY" }

\* DeleteRequest, as read through its getters.
Requests ==
    [ query : Queries, sort : Sorts, proj : Projections, collation : Collations,
      hint : Hints, multi : BOOLEAN, returnDeleted : BOOLEAN, god : BOOLEAN,
      yieldPolicy : YieldPolicies, isExplain : {FALSE} ]

VARIABLES
    kDebugBuild,                  \* whether dassert() is compiled in
    request,                      \* *_request
    collection,                   \* what the borrowed CollectionPtr answers
    matchExprsForWrites,          \* what timeseries::getMatchExprsForWrites answers for
                                  \* the request's predicate on this collection
    _timeseriesDeleteQueryExprs,  \* NULL, or the bucket/residual pair
    _expCtx,                      \* NULL, or the ExpressionContext
    _canonicalQuery,              \* NULL, or the CanonicalQuery held
    terminated,                   \* the process was aborted by invariant()/dassert()
    last,                         \* the last call made on the instance and how it ended
    trace,                        \* collaborators invoked by the last parseRequest() or
                                  \* parseQueryToCQ() call, in order
    findCommand,                  \* the FindCommandRequest that call canonicalized
    taken,                        \* what the last releaseParsedQuery() handed to the caller
    history                       \* what has happened on the instance so far

vars == << kDebugBuild, request, collection, matchExprsForWrites,
           _timeseriesDeleteQueryExprs, _expCtx,
           _canonicalQuery, terminated, last, trace, findCommand, taken, history >>

\* The members of the ParsedDelete object itself.
members == << request, collection, _timeseriesDeleteQueryExprs, _expCtx, _canonicalQuery >>

----------------------------------------------------------------------------
(* Collaborators.                                                          *)

\* createTimeseriesWritesQueryExprsIfNecessary(featureEnabled, collection):
\* an empty TimeseriesWritesQueryExprs for a time-series collection when the
\* feature is enabled, nullptr otherwise.
createTimeseriesWritesQueryExprsIfNecessary(featureEnabled, coll) ==
    IF featureEnabled /\ coll.timeseriesOptions # NULL
    THEN [bucketExpr |-> NULL, residualExpr |-> NULL]
    ELSE NULL

\* CanonicalQuery::isSimpleIdQuery: a single top-level equality on _id.
isSimpleIdQuery(query) ==
    /\ Len(query) = 1
    /\ query[1].field = "_id"
    /\ query[1].op = "eq"

\* resolveCollator(opCtx, userCollation, collection): the caller's collation
\* overrides the collection default; the second component records whether
\* it matched the default.
resolveCollator(userCollation, coll) ==
    IF isEmpty(coll.defaultCollation)
    THEN [collator |-> userCollation, collationMatchesDefault |-> "kNoDefault"]
    ELSE IF isEmpty(userCollation)
         THEN [collator |-> coll.defaultCollation, collationMatchesDefault |-> "kYes"]
         ELSE [collator |-> userCollation,
               collationMatchesDefault |->
                   IF userCollation = coll.defaultCollation THEN "kYes" ELSE "kNo"]

\* The "bucket is not closed" guard every bucket-level filter contains.
ClosedBucketGuard == [field |-> "control.closed", op |-> "ne"]

\* Bucket-level match expression for a predicate: the guard, followed by
\* what the predicate implies for the bucket's summary fields.
BucketExprOf(query) ==
    [matchExpr |-> <<ClosedBucketGuard>> \o
        [i \in 1..Len(query) |-> [field |-> "control." \o query[i].field, op |-> "range"]]]

\* Residual match expression for a predicate: the predicate itself, per document.
ResidualExprOf(query) == [matchExpr |-> query]

\* MatchExpression::serialize(): the BSON form of a match expression.
serialize(expr) == expr.matchExpr

\* What timeseries::getMatchExprsForWrites may hand back for a predicate: it
\* is a function of the predicate and the collection, so one instance gets
\* the same answer on every call. A null bucket-level expression is outside
\* its contract; parseQueryToCQ guards against it.
getMatchExprsForWritesResults(query) ==
    [ bucketExpr : {NULL, BucketExprOf(query)},
      residualExpr : {NULL, ResidualExprOf(query)} ]

OK == [code |-> "OK", reason |-> ""]

\* The errors CanonicalQuery::canonicalize may return.
CanonicalizeErrors ==
    { [code |-> "BadValue", reason |-> "unknown operator"] }

\* CanonicalQuery::canonicalize: a StatusWith<CanonicalQuery>, the query built
\* from the FindCommandRequest and ExpressionContext it was given, or the
\* error it answers with (answer = NULL: it succeeds).
canonicalize(fc, expCtx, answer) ==
    IF answer = NULL
    THEN [status |-> OK, value |-> [findCommand |-> fc, expCtx |-> expCtx]]
    ELSE [status |-> answer, value |-> NULL]

----------------------------------------------------------------------------
(* ParsedDelete.                                                           *)

\* What a call leaves behind: the members it assigns, whether the process
\* survived, how the call ended ("returned", "threw", "aborted"), the Status
\* returned or thrown, the failed assertion if any, and the collaborators
\* invoked.
CallResult(tsExprs, expCtx, cq, outcome, status, assertion, tr, fc) ==
    [ tsExprs |-> tsExprs, expCtx |-> expCtx, cq |-> cq, outcome |-> outcome,
      status |-> status, assertion |-> assertion, trace |-> tr, findCommand |-> fc ]

NoStatus == [code |-> "", reason |-> ""]

InvalidOptionsError ==
    [code |-> "InvalidOptions",
     reason |-> "Cannot perform a findAndModify with a query and sort on a time-series collection."]

TripwireError == [code |-> "Location7542400", reason |-> "Bucket-level filter must not be null"]

\* FailsEntryDassert with the dassert compiled out of every build.
FailsEntryDassert_CompiledOut == FALSE

\* Lines 72 and 100: dassert(!_canonicalQuery.get()) fails; dassert is
\* checked in a debug build only.
FailsEntryDassert == kDebugBuild /\ _canonicalQuery # NULL

\* NeedsLimit with the test of getMulti() left out.
NeedsLimit_IgnoresMulti(req) == ~isEmpty(req.sort)

\* Line 134: the limit the FindCommandRequest gets, 0 standing for "not set".
NeedsLimit(req) == ~req.multi /\ ~isEmpty(req.sort)

\* Lines 160-162: the member _canonicalQuery after canonicalize() returned.
StoreCanonicalQuery(cq, statusWithCQ) ==
    IF statusWithCQ.status = OK THEN statusWithCQ.value ELSE cq

\* FailsSortUassert with the uassert's condition inverted.
FailsSortUassert_Inverted(req, tsExprs) == NeedsLimit(req) /\ tsExprs = NULL

\* Lines 134-141: a findAndModify-style delete (not multi, with a sort) on a
\* time-series collection fails the uassert.
FailsSortUassert(req, tsExprs) == NeedsLimit(req) /\ tsExprs # NULL

\* ReturnedStatus with the canonicalizer's failure reported under a message
\* of parseQueryToCQ's own.
ReturnedStatus_Rewrapped(statusWithCQ) ==
    IF statusWithCQ.status = OK THEN OK
    ELSE [statusWithCQ.status EXCEPT !.reason = "cannot canonicalize the delete"]

\* Line 164: the Status parseQueryToCQ returns.
ReturnedStatus(statusWithCQ) == statusWithCQ.status

\* AssignSplit leaving the member alone when the request is about to be
\* rejected for its sort.
AssignSplit_SkippedWhenRejected(tsExprs, split) ==
    IF tsExprs # NULL /\ ~FailsSortUassert(request, tsExprs) THEN split ELSE tsExprs

\* Lines 105-110: *_timeseriesDeleteQueryExprs after the split has been
\* assigned to it; nothing is assigned when the member is null.
AssignSplit(tsExprs, split) == IF tsExprs # NULL THEN split ELSE tsExprs

\* FailsBucketTassert with the check made only after the uassert on the sort.
FailsBucketTassert_AfterSortCheck(exprs) ==
    /\ exprs.bucketExpr = NULL
    /\ ~FailsSortUassert(request, _timeseriesDeleteQueryExprs)

\* Line 119: tassert(7542400, ..., queryExprs->_bucketExpr) fails.
FailsBucketTassert(exprs) == exprs.bucketExpr = NULL

\* FindCommandFilter using the request's predicate on every path.
FindCommandFilter_AlwaysQuery(req, exprs) == req.query

\* Lines 105-123: the filter of the FindCommandRequest: the serialized
\* bucket-level expression for a time-series delete, the request's
\* predicate otherwise.
FindCommandFilter(req, exprs) ==
    IF exprs # NULL THEN serialize(exprs.bucketExpr) ELSE req.query

\* AfterSplit with the expression counters left running.
AfterSplit_CountersLeftRunning(expCtx, tr) ==
    [expCtx |-> expCtx, trace |-> tr \o <<"getMatchExprsForWrites">>]

\* Lines 109-116: the ExpressionContext and the calls made once the split
\* has returned: the expression counters are stopped right after it.
AfterSplit(expCtx, tr) ==
    [expCtx |-> IF expCtx = NULL THEN expCtx
                ELSE [expCtx EXCEPT !.expressionCounters = FALSE],
     trace |-> tr \o <<"getMatchExprsForWrites", "stopExpressionCounters">>]

\* ParsedDelete::parseQueryToCQ, entered with the ExpressionContext expCtx
\* and the trace so far; split and canonErr are what the two collaborators
\* answer. On a time-series delete with no ExpressionContext yet (the call
\* was made before any parseRequest()) line 116 dereferences a null
\* pointer: the process either dies there (crash) or goes on with the
\* pointer still null.
parseQueryToCQ(expCtx, tr, split, canonErr, crash) ==
    IF FailsEntryDassert
    THEN CallResult(_timeseriesDeleteQueryExprs, expCtx, _canonicalQuery,
                    "aborted", NoStatus, "dassert:100", tr, NULL)
    ELSE IF _timeseriesDeleteQueryExprs # NULL /\ expCtx = NULL /\ crash
    THEN CallResult(AssignSplit(_timeseriesDeleteQueryExprs, split), expCtx, _canonicalQuery,
                    "aborted", NoStatus, "nullptr:116",
                    tr \o <<"getMatchExprsForWrites">>, NULL)
    ELSE
    LET ts == _timeseriesDeleteQueryExprs # NULL
        exprs == AssignSplit(_timeseriesDeleteQueryExprs, split)
        expCtx1 == IF ts THEN AfterSplit(expCtx, tr).expCtx ELSE expCtx
        tr1 == IF ts THEN AfterSplit(expCtx, tr).trace ELSE tr
    IN
    IF ts /\ FailsBucketTassert(exprs)
    THEN CallResult(exprs, expCtx1, _canonicalQuery,
                    "threw", TripwireError, "tassert:119", tr1, NULL)
    ELSE
    LET fc0 == [ filter |-> FindCommandFilter(request, exprs),
                 sort |-> request.sort,
                 collation |-> request.collation,
                 hint |-> request.hint,
                 limit |-> 0 ]
    IN
    IF FailsSortUassert(request, _timeseriesDeleteQueryExprs)
    THEN CallResult(exprs, expCtx1, _canonicalQuery,
                    "threw", InvalidOptionsError, "uassert:139", tr1, NULL)
    ELSE
    LET fc == IF NeedsLimit(request) THEN [fc0 EXCEPT !.limit = 1] ELSE fc0
        statusWithCQ == canonicalize(fc, expCtx1, canonErr)
    IN CallResult(exprs, expCtx1, StoreCanonicalQuery(_canonicalQuery, statusWithCQ),
                  "returned", ReturnedStatus(statusWithCQ), "", tr1 \o <<"canonicalize">>, fc)

\* FailedInvariant without the invariant of line 75.
FailedInvariant_NoMultiCheck(req) ==
    IF ~(isEmpty(req.proj) \/ req.returnDeleted) THEN "invariant:79" ELSE ""

\* FailedInvariant with line 79 requiring an empty projection outright.
FailedInvariant_ProjAlwaysRejected(req) ==
    IF req.returnDeleted /\ req.multi THEN "invariant:75"
    ELSE IF ~isEmpty(req.proj) THEN "invariant:79"
    ELSE ""

\* Lines 75 and 79: the invariant() a request fails, "" when it passes both.
FailedInvariant(req) ==
    IF req.returnDeleted /\ req.multi THEN "invariant:75"
    ELSE IF ~(isEmpty(req.proj) \/ req.returnDeleted) THEN "invariant:79"
    ELSE ""

\* TakesIdHackPath without the test of _timeseriesDeleteQueryExprs.
TakesIdHackPath_IgnoresTimeseries(req, tsExprs) == isSimpleIdQuery(req.query)

\* Line 91: whether parseRequest returns before canonicalizing.
TakesIdHackPath(req, tsExprs) == isSimpleIdQuery(req.query) /\ tsExprs = NULL

\* Lines 81-95 with the expression counters started before the test of line
\* 91 instead of after it.
MakeExpCtx_CountersStarted(req, coll) ==
    LET resolved == resolveCollator(req.collation, coll)
    IN [expCtx |-> [ collator |-> resolved.collator,
                     collationMatchesDefault |-> resolved.collationMatchesDefault,
                     expressionCounters |-> TRUE ],
        trace |-> <<"resolveCollator", "startExpressionCounters">>]

\* Lines 81-88: the ExpressionContext parseRequest builds from the resolved
\* collator, and the calls made so far. A new ExpressionContext counts no
\* expressions until startExpressionCounters() is called on it.
MakeExpCtx(req, coll) ==
    LET resolved == resolveCollator(req.collation, coll)
    IN [expCtx |-> [ collator |-> resolved.collator,
                     collationMatchesDefault |-> resolved.collationMatchesDefault,
                     expressionCounters |-> FALSE ],
        trace |-> <<"resolveCollator">>]

\* ParsedDelete::parseRequest.
parseRequest(split, canonErr) ==
    IF FailsEntryDassert
    THEN CallResult(_timeseriesDeleteQueryExprs, _expCtx, _canonicalQuery,
                    "aborted", NoStatus, "dassert:72", <<>>, NULL)
    ELSE IF FailedInvariant(request) # ""
    THEN CallResult(_timeseriesDeleteQueryExprs, _expCtx, _canonicalQuery,
                    "aborted", NoStatus, FailedInvariant(request), <<>>, NULL)
    ELSE
    LET made == MakeExpCtx(request, collection)
    IN
    IF TakesIdHackPath(request, _timeseriesDeleteQueryExprs)
    THEN CallResult(_timeseriesDeleteQueryExprs, made.expCtx, _canonicalQuery,
                    "returned", OK, "", made.trace, NULL)
    ELSE parseQueryToCQ([made.expCtx EXCEPT !.expressionCounters = TRUE],
                        made.trace \o <<"startExpressionCounters">>, split, canonErr,
                        FALSE)

\* yieldPolicy without the test of getGod().
yieldPolicy_IgnoresGod == request.yieldPolicy

\* ParsedDelete::yieldPolicy.
yieldPolicy == IF request.god THEN "NO_YIELD" ELSE request.yieldPolicy

\* ParsedDelete::hasParsedQuery.
hasParsedQuery == _canonicalQuery # NULL

\* ParsedDelete::getResidualExpr (parsed_delete.h).
getResidualExpr ==
    IF _timeseriesDeleteQueryExprs # NULL
    THEN _timeseriesDeleteQueryExprs.residualExpr
    ELSE NULL

\* isEligibleForArbitraryTimeseriesDelete without the test of getMulti().
isEligibleForArbitraryTimeseriesDelete_NeedsResidual ==
    _timeseriesDeleteQueryExprs # NULL /\ getResidualExpr # NULL

\* ParsedDelete::isEligibleForArbitraryTimeseriesDelete.
isEligibleForArbitraryTimeseriesDelete ==
    _timeseriesDeleteQueryExprs # NULL /\ (getResidualExpr # NULL \/ ~request.multi)

\* What a releaseParsedQuery() call hands to the caller and leaves in the
\* members.
ReleaseResult(outcome, assertion, value, cq, tsExprs, expCtx) ==
    [outcome |-> outcome, assertion |-> assertion, value |-> value, cq |-> cq,
     tsExprs |-> tsExprs, expCtx |-> expCtx]

\* releaseParsedQuery handing out a copy and keeping the member.
releaseParsedQuery_KeepsQuery ==
    IF _canonicalQuery = NULL
    THEN ReleaseResult("aborted", "invariant:180", NULL, _canonicalQuery,
                       _timeseriesDeleteQueryExprs, _expCtx)
    ELSE ReleaseResult("returned", "", _canonicalQuery, _canonicalQuery,
                       _timeseriesDeleteQueryExprs, _expCtx)

\* releaseParsedQuery without the invariant of line 180.
releaseParsedQuery_NoInvariant ==
    ReleaseResult("returned", "", _canonicalQuery, NULL,
                  _timeseriesDeleteQueryExprs, _expCtx)

\* releaseParsedQuery giving up the ExpressionContext and the pair of
\* expressions together with the query.
releaseParsedQuery_ReleasesAll ==
    IF _canonicalQuery = NULL
    THEN ReleaseResult("aborted", "invariant:180", NULL, _canonicalQuery,
                       _timeseriesDeleteQueryExprs, _expCtx)
    ELSE ReleaseResult("returned", "", _canonicalQuery, NULL, NULL, NULL)

\* ParsedDelete::releaseParsedQuery: what the caller gets and what the
\* members hold afterwards.
releaseParsedQuery ==
    IF _canonicalQuery = NULL
    THEN ReleaseResult("aborted", "invariant:180", NULL, _canonicalQuery,
                       _timeseriesDeleteQueryExprs, _expCtx)
    ELSE ReleaseResult("returned", "", _canonicalQuery, NULL,
                       _timeseriesDeleteQueryExprs, _expCtx)

\* ParsedDelete::getRequest.
getRequest == request

----------------------------------------------------------------------------
(* The state machine.                                                      *)

NoCall == [ op |-> "none", outcome |-> "", status |-> NoStatus, assertion |-> "",
            bool |-> FALSE, policy |-> "" ]

Returned(op) == [NoCall EXCEPT !.op = op, !.outcome = "returned"]

\* The constructor consulting the collection whatever the caller's flag says.
ParsedDelete_IgnoresFlag(isTimeseriesDelete, featureEnabled, coll) ==
    createTimeseriesWritesQueryExprsIfNecessary(featureEnabled, coll)

\* ParsedDelete::ParsedDelete: what _timeseriesDeleteQueryExprs is
\* initialized with (lines 64-69).
ParsedDelete(isTimeseriesDelete, featureEnabled, coll) ==
    IF isTimeseriesDelete
    THEN createTimeseriesWritesQueryExprsIfNecessary(featureEnabled, coll)
    ELSE NULL

\* What has happened on the instance: the flag it was constructed with, the
\* number of parseRequest() and parseQueryToCQ() calls made by the caller,
\* how the latest one ended, whether a query was held when it began, what the canonicalizer answered in it, whether a
\* canonicalizer result was stored with no release since, whether a release
\* ever happened, whether the latest split produced a residual expression,
\* how many canonicalizer results were stored, what the latest split handed
\* back (NULL before any split), and whether the caller ever called
\* parseQueryToCQ() itself.
NewHistory(isTimeseriesDelete) ==
    [ isTimeseriesDelete |-> isTimeseriesDelete,
      parses |-> 0, lastParse |-> "none", heldAtParse |-> FALSE,
      canonStatus |-> NoStatus, stored |-> FALSE, released |-> FALSE,
      residual |-> FALSE, stores |-> 0, split |-> NULL, direct |-> FALSE ]

Collections ==
    [ timeseriesOptions : {NULL, [timeField |-> "t"]},
      defaultCollation : {<<"fr">>} ]

\* What the split may answer for a request on a collection: it is only ever
\* asked on a time-series collection.
SplitAnswers(req, coll) ==
    IF coll.timeseriesOptions # NULL
    THEN getMatchExprsForWritesResults(req.query)
    ELSE {[bucketExpr |-> NULL, residualExpr |-> NULL]}

\* ParsedDelete::ParsedDelete, for every request, collection, is-timeseries
\* flag and feature-flag value, in a debug or a release build.
Init ==
    /\ kDebugBuild \in BOOLEAN
    /\ request \in Requests
    /\ collection \in Collections
    /\ matchExprsForWrites \in SplitAnswers(request, collection)
    /\ \E isTimeseriesDelete \in BOOLEAN, featureEnabled \in BOOLEAN :
          /\ _timeseriesDeleteQueryExprs =
                ParsedDelete(isTimeseriesDelete, featureEnabled, collection)
          /\ history = NewHistory(isTimeseriesDelete)
    /\ _expCtx = NULL
    /\ _canonicalQuery = NULL
    /\ terminated = FALSE
    /\ last = NoCall
    /\ trace = <<>>
    /\ findCommand = NULL
    /\ taken = NULL

\* Whether a trace names a collaborator.
Invoked(tr, what) == \E i \in 1..Len(tr) : tr[i] = what

\* How a parseRequest() call that ended as r, with the canonicalizer
\* answering canonErr if asked, is remembered.
ParseKind(r, canonErr) ==
    IF r.outcome = "aborted" THEN "aborted"
    ELSE IF r.outcome = "threw" THEN "threw"
    ELSE IF ~Invoked(r.trace, "canonicalize") THEN "idhack"
    ELSE IF canonErr = NULL THEN "ok"
    ELSE "error"

\* n + 1, up to MaxParses.
Counted(n) == IF n < MaxParses THEN n + 1 ELSE n

\* The state after the call op (of parseRequest() or parseQueryToCQ()) that
\* ended as r, the collaborators having answered split and canonErr.
Called(op, r, split, canonErr) ==
    LET didSplit == Invoked(r.trace, "getMatchExprsForWrites")
        kind == ParseKind(r, canonErr)
    IN /\ _timeseriesDeleteQueryExprs' = r.tsExprs
       /\ _expCtx' = r.expCtx
       /\ _canonicalQuery' = r.cq
       /\ terminated' = (r.outcome = "aborted")
       /\ last' = [NoCall EXCEPT !.op = op, !.outcome = r.outcome,
                                 !.status = r.status, !.assertion = r.assertion]
       /\ trace' = r.trace
       /\ findCommand' = r.findCommand
       /\ history' = [history EXCEPT
                         !.parses = Counted(@),
                         !.lastParse = kind,
                         !.heldAtParse = hasParsedQuery,
                         !.canonStatus = IF kind = "ok" THEN OK
                                         ELSE IF kind = "error" THEN canonErr
                                         ELSE NoStatus,
                         !.stored = @ \/ (kind = "ok"),
                         !.residual = IF didSplit THEN split.residualExpr # NULL ELSE @,
                         !.stores = IF kind = "ok" THEN Counted(@) ELSE @,
                         !.split = IF didSplit THEN split ELSE @,
                         !.direct = @ \/ (op = "parseQueryToCQ")]
       /\ UNCHANGED << kDebugBuild, matchExprsForWrites, request, collection, taken >>

\* What the null dereference of line 116 may do in this state: it only
\* happens on a time-series delete with no ExpressionContext.
CrashAnswers ==
    IF _timeseriesDeleteQueryExprs # NULL /\ _expCtx = NULL THEN BOOLEAN ELSE {FALSE}

\* A call of parseRequest().
ParseRequest ==
    /\ ~terminated
    /\ \E canonErr \in {NULL} \cup CanonicalizeErrors :
          Called("parseRequest", parseRequest(matchExprsForWrites, canonErr),
                 matchExprsForWrites, canonErr)

\* A call of parseQueryToCQ() made by the caller itself.
ParseQueryToCQ ==
    /\ ~terminated
    /\ \E canonErr \in {NULL} \cup CanonicalizeErrors,
          crash \in CrashAnswers :
          Called("parseQueryToCQ",
                 parseQueryToCQ(_expCtx, <<>>, matchExprsForWrites, canonErr, crash),
                 matchExprsForWrites, canonErr)

\* A call of releaseParsedQuery().
ReleaseParsedQuery ==
    /\ ~terminated
    /\ LET r == releaseParsedQuery
       IN /\ _canonicalQuery' = r.cq
          /\ _timeseriesDeleteQueryExprs' = r.tsExprs
          /\ _expCtx' = r.expCtx
          /\ taken' = r.value
          /\ terminated' = (r.outcome = "aborted")
          /\ last' = [NoCall EXCEPT !.op = "releaseParsedQuery", !.outcome = r.outcome,
                                    !.assertion = r.assertion]
          /\ history' = IF r.outcome = "returned"
                        THEN [history EXCEPT !.stored = FALSE, !.released = TRUE]
                        ELSE history
    /\ UNCHANGED << kDebugBuild, matchExprsForWrites, request, collection, trace, findCommand >>

\* A call of hasParsedQuery().
HasParsedQuery ==
    /\ ~terminated
    /\ last' = [Returned("hasParsedQuery") EXCEPT !.bool = hasParsedQuery]
    /\ UNCHANGED << kDebugBuild, matchExprsForWrites, members, terminated, trace, findCommand, taken, history >>

\* A call of yieldPolicy().
YieldPolicy ==
    /\ ~terminated
    /\ last' = [Returned("yieldPolicy") EXCEPT !.policy = yieldPolicy]
    /\ UNCHANGED << kDebugBuild, matchExprsForWrites, members, terminated, trace, findCommand, taken, history >>

\* A call of isEligibleForArbitraryTimeseriesDelete().
IsEligibleForArbitraryTimeseriesDelete ==
    /\ ~terminated
    /\ last' = [Returned("isEligibleForArbitraryTimeseriesDelete")
                   EXCEPT !.bool = isEligibleForArbitraryTimeseriesDelete]
    /\ UNCHANGED << kDebugBuild, matchExprsForWrites, members, terminated, trace, findCommand, taken, history >>

\* A call of getRequest().
GetRequest ==
    /\ ~terminated
    /\ last' = [Returned("getRequest") EXCEPT !.bool = (getRequest = request)]
    /\ UNCHANGED << kDebugBuild, matchExprsForWrites, members, terminated, trace, findCommand, taken, history >>

Next ==
    \/ ParseRequest
    \/ ParseQueryToCQ
    \/ ReleaseParsedQuery
    \/ HasParsedQuery
    \/ YieldPolicy
    \/ IsEligibleForArbitraryTimeseriesDelete
    \/ GetRequest

Spec == Init /\ [][Next]_vars

----------------------------------------------------------------------------
(* Vocabulary of the properties.                                           *)

\* The delete is a time-series (time-partitioned) delete.
TimePartitioned == _timeseriesDeleteQueryExprs # NULL

\* The request passes the two validation rules.
ValidRequest ==
    /\ ~(request.returnDeleted /\ request.multi)
    /\ (request.proj = <<>> \/ request.returnDeleted)

\* The request is not multi and carries a sort.
SortedSingleDelete == ~request.multi /\ request.sort # <<>>


\* The split, if the last parseRequest() ran it, handed back a bucket-level
\* expression, as its contract says.
SplitKeptContract ==
    Invoked(trace, "getMatchExprsForWrites") => _timeseriesDeleteQueryExprs.bucketExpr # NULL

\* The state is the one a parseRequest() call left.
AfterParse == last.op = "parseRequest"

\* The caller has never called parseQueryToCQ() itself: parseRequest() is the
\* only way the instance has been asked to parse.
NoDirectCall == ~history.direct

\* The last parseRequest() invoked the canonicalizer.
ReachedCanonicalizer == Invoked(trace, "canonicalize")

\* The last parseRequest() ended in an invariant() failure of the validation
\* before any collaborator was invoked, leaving every member as constructed.
AbortedInValidation(assertion) ==
    /\ AfterParse
    /\ terminated
    /\ last.outcome = "aborted"
    /\ last.assertion = assertion
    /\ trace = <<>>
    /\ findCommand = NULL
    /\ _expCtx = NULL
    /\ _canonicalQuery = NULL

\* The last parseRequest() took the fast path: it returned OK having invoked
\* only the collation resolver, with no expression counters started and
\* _canonicalQuery left as it was.
FastPathTaken ==
    /\ AfterParse
    /\ last.outcome = "returned"
    /\ last.status = OK
    /\ trace = <<"resolveCollator">>
    /\ findCommand = NULL
    /\ ~_expCtx.expressionCounters
    /\ hasParsedQuery <=> history.heldAtParse

----------------------------------------------------------------------------
(* Properties.                                                             *)

\* C1: whenever parseRequest() reaches the canonicalizer, the
\* FindCommandRequest it passes has limit 1 if and only if the request is
\* not multi and has a non-empty sort; otherwise the limit is unset.
C1_LimitPolicy ==
    ReachedCanonicalizer =>
        /\ findCommand # NULL
        /\ findCommand.limit = (IF SortedSingleDelete THEN 1 ELSE 0)

C1_Witness ==
    /\ AfterParse
    /\ ReachedCanonicalizer
    /\ SortedSingleDelete
    /\ findCommand.limit = 1

\* C2, as stated: every time-series delete that is not multi and has a sort
\* ends parseRequest() with an InvalidOptions error, never a fatal
\* assertion, without invoking the canonicalizer and with no query held
\* (read with a splitter that keeps its contract).
C2_Original ==
    (/\ AfterParse
     /\ NoDirectCall
     /\ TimePartitioned
     /\ SortedSingleDelete
     /\ SplitKeptContract) =>
        /\ last.outcome \in {"returned", "threw"}
        /\ last.status.code = "InvalidOptions"
        /\ ~ReachedCanonicalizer
        /\ ~hasParsedQuery

\* C2, amended: the same, for a request that passes validation.
C2_SortOnTimeseriesRejected ==
    (/\ AfterParse
     /\ TimePartitioned
     /\ SortedSingleDelete
     /\ ValidRequest
     /\ SplitKeptContract) =>
        /\ last.outcome = "threw"
        /\ last.status.code = "InvalidOptions"
        /\ last.assertion = "uassert:139"
        /\ ~terminated
        /\ ~ReachedCanonicalizer
        /\ findCommand = NULL
        /\ ~hasParsedQuery

C2_Witness ==
    /\ AfterParse
    /\ TimePartitioned
    /\ SortedSingleDelete
    /\ ValidRequest
    /\ SplitKeptContract
    /\ last.status.code = "InvalidOptions"

\* The last parseRequest() aborted the process on entry, before any
\* collaborator was invoked and storing nothing: in the given invariant(),
\* or, in a debug build with a query already held, in the dassert of line 72.
AbortedOnEntry(assertion) ==
    /\ AfterParse
    /\ terminated
    /\ last.outcome = "aborted"
    /\ last.assertion =
           (IF kDebugBuild /\ history.heldAtParse THEN "dassert:72" ELSE assertion)
    /\ trace = <<>>
    /\ findCommand = NULL
    /\ hasParsedQuery <=> history.heldAtParse
    /\ NoDirectCall => AbortedInValidation(assertion)

\* C3: a request with returnDeleted and multi ends parseRequest() in a fatal
\* assertion (the invariant of line 75 whenever no query was held), whatever
\* its other fields, before the collation resolver, the splitter or the
\* canonicalizer is invoked, and no query is stored.
C3_ReturnDeletedMultiIsFatal ==
    (request.returnDeleted /\ request.multi /\ AfterParse) =>
        AbortedOnEntry("invariant:75")

C3_Witness ==
    /\ request.returnDeleted /\ request.multi
    /\ request.query = <<IdEq>>
    /\ ~TimePartitioned
    /\ AfterParse
    /\ terminated
    /\ last.assertion = "invariant:75"

\* C4: a request with a non-empty projection and no returnDeleted ends
\* parseRequest() in an invariant failure before any collaborator is
\* invoked and stores no query; a non-empty projection with returnDeleted
\* and without multi fails neither validation rule.
C4_ProjectionNeedsReturnDeleted ==
    /\ (request.proj # <<>> /\ ~request.returnDeleted /\ AfterParse) =>
            AbortedOnEntry("invariant:79")
    /\ (request.proj # <<>> /\ request.returnDeleted /\ ~request.multi /\ AfterParse) =>
            /\ last.assertion \notin {"invariant:75", "invariant:79"}
            /\ last.assertion # "dassert:72" => Invoked(trace, "resolveCollator")

C4_Witness ==
    /\ request.proj # <<>> /\ ~request.returnDeleted
    /\ AfterParse
    /\ terminated
    /\ last.assertion = "invariant:79"

\* A parseRequest() call that got past the entry assertion of line 72.
ParseRan == AfterParse /\ last.assertion # "dassert:72"

\* C5, as stated: for a valid request parseRequest() takes the fast path
\* exactly when the predicate is a simple _id equality and the delete is not
\* a time-series delete; a time-series delete with a simple _id equality
\* goes through the split and the canonicalizer (read with a splitter that
\* keeps its contract).
C5_Original ==
    (ParseRan /\ ValidRequest /\ NoDirectCall) =>
        /\ (request.query = <<IdEq>> /\ ~TimePartitioned) =>
                (FastPathTaken /\ ~hasParsedQuery)
        /\ ~(request.query = <<IdEq>> /\ ~TimePartitioned) =>
                Invoked(trace, "startExpressionCounters")
        /\ (request.query = <<IdEq>> /\ TimePartitioned) =>
                /\ Invoked(trace, "getMatchExprsForWrites")
                /\ SplitKeptContract => ReachedCanonicalizer

\* C5, amended: a time-series delete with a simple _id equality goes through
\* the split, and then through the canonicalizer unless the request is not
\* multi and has a sort (or the split broke its contract).
C5_FastPath ==
    (ParseRan /\ ValidRequest) =>
        /\ (request.query = <<IdEq>> /\ ~TimePartitioned) =>
                /\ FastPathTaken
                /\ NoDirectCall => ~hasParsedQuery
        /\ ~(request.query = <<IdEq>> /\ ~TimePartitioned) =>
                /\ Invoked(trace, "startExpressionCounters")
                /\ ~FastPathTaken
        /\ (request.query = <<IdEq>> /\ TimePartitioned) =>
                /\ Invoked(trace, "getMatchExprsForWrites")
                /\ ReachedCanonicalizer <=>
                       (SplitKeptContract /\ ~SortedSingleDelete)

C5_Witness ==
    /\ FastPathTaken
    /\ ~hasParsedQuery
    /\ ValidRequest
    /\ request.query = <<IdEq>>
    /\ history.parses = 1

\* The latest parseRequest() failed: the canonicalizer returned an error, or
\* an exception was thrown.
LastParseFailed == history.lastParse \in {"error", "threw"}

\* C6, as stated: hasParsedQuery() is true if and only if a parseRequest()
\* stored a canonicalizer result and releaseParsedQuery() has not been called
\* since; it is false before parseRequest(), after a fast-path
\* parseRequest(), after a failed parseRequest() and after a release (read
\* with a splitter that keeps its contract).
C6_Original ==
    /\ hasParsedQuery <=> history.stored
    /\ last.op = "hasParsedQuery" => (last.bool <=> history.stored)
    /\ history.parses = 0 => ~hasParsedQuery
    /\ (AfterParse /\ NoDirectCall /\ history.lastParse = "idhack") => ~hasParsedQuery
    /\ (AfterParse /\ NoDirectCall /\ LastParseFailed /\ SplitKeptContract) =>
           ~hasParsedQuery
    /\ (last.op = "releaseParsedQuery" /\ last.outcome = "returned") => ~hasParsedQuery

\* C6, amended: after a failed parseRequest() it is false when no query was
\* held as that parseRequest() began, and true when one was.
C6_HasParsedQuery ==
    /\ hasParsedQuery <=> history.stored
    /\ last.op = "hasParsedQuery" => (last.bool <=> history.stored)
    /\ history.parses = 0 => ~hasParsedQuery
    /\ (AfterParse /\ history.lastParse = "idhack") =>
           /\ hasParsedQuery <=> history.heldAtParse
           /\ NoDirectCall => ~hasParsedQuery
    /\ (AfterParse /\ LastParseFailed) => (hasParsedQuery <=> history.heldAtParse)
    /\ (last.op = "releaseParsedQuery" /\ last.outcome = "returned") => ~hasParsedQuery

C6_Witness ==
    /\ last.op = "hasParsedQuery"
    /\ ~last.bool
    /\ history.lastParse = "error"
    /\ ~history.heldAtParse
    /\ history.released

\* The step is a call of releaseParsedQuery().
ReleaseStep == last'.op = "releaseParsedQuery"

\* What C7 says of every release, whenever it is called: it returns exactly
\* when a query is held, then hands that query out and leaves none held, and
\* otherwise fails the invariant of line 180; twice in succession, before any
\* parseRequest() and after a fast-path parseRequest() it fails.
C7_ReleaseContract ==
    ReleaseStep =>
        /\ (last'.outcome = "returned") <=> hasParsedQuery
        /\ hasParsedQuery => (taken' = _canonicalQuery /\ ~hasParsedQuery' /\ ~terminated')
        /\ ~hasParsedQuery =>
               (terminated' /\ last'.outcome = "aborted" /\ last'.assertion = "invariant:180")
        /\ last.op = "releaseParsedQuery" => terminated'
        /\ history.parses = 0 => terminated'
        /\ (history.lastParse = "idhack" /\ (NoDirectCall \/ ~history.heldAtParse)) =>
               terminated'

\* C7, as stated: releaseParsedQuery() is legal only while hasParsedQuery()
\* is true; a second release in succession, a release before parseRequest(),
\* after a fast-path parseRequest() and after a failed parseRequest() each
\* fail the invariant (read with a splitter that keeps its contract).
C7_Original ==
    [][/\ C7_ReleaseContract
       /\ (ReleaseStep /\ NoDirectCall /\ LastParseFailed /\ SplitKeptContract) =>
              terminated']_vars

\* C7, amended: a release after a failed parseRequest() fails the invariant
\* when no query was held as that parseRequest() began.
C7_ReleaseOnlyWhileHeld ==
    [][/\ C7_ReleaseContract
       /\ (ReleaseStep /\ LastParseFailed /\ ~history.heldAtParse) => terminated']_vars

C7_Witness ==
    /\ last.op = "releaseParsedQuery"
    /\ terminated
    /\ last.assertion = "invariant:180"
    /\ history.released
    /\ history.lastParse = "ok"

\* The canonicalizer answered the last parseRequest() with an error.
CanonicalizerFailed == AfterParse /\ history.canonStatus \notin {NoStatus, OK}

\* C8, as stated: when the canonicalizer returns an error, parseRequest()
\* returns exactly that error and hasParsedQuery() is false afterwards.
C8_Original ==
    (CanonicalizerFailed /\ NoDirectCall) =>
        /\ last.outcome = "returned"
        /\ last.status = history.canonStatus
        /\ ~hasParsedQuery

\* C8, amended: parseRequest() returns exactly that error and leaves
\* _canonicalQuery as it was, so hasParsedQuery() is false afterwards when no
\* query was held as parseRequest() began.
C8_CanonicalizerErrorPropagates ==
    /\ [](CanonicalizerFailed =>
            /\ last.outcome = "returned"
            /\ last.status = history.canonStatus
            /\ ~terminated
            /\ hasParsedQuery <=> history.heldAtParse)
    /\ [][CanonicalizerFailed' => _canonicalQuery' = _canonicalQuery]_vars

C8_Witness ==
    /\ CanonicalizerFailed
    /\ last.status.code = "BadValue"
    /\ ~history.heldAtParse
    /\ ~hasParsedQuery

\* C9: isEligibleForArbitraryTimeseriesDelete() is true exactly when the delete
\* is a time-series delete and (the latest split left a residual expression
\* or the request is not multi), at every point of the lifecycle; for a
\* time-series delete with multi it is false before parseRequest().
C9_ArbitraryDeleteEligibility ==
    LET expected == TimePartitioned /\ (history.residual \/ ~request.multi)
    IN /\ isEligibleForArbitraryTimeseriesDelete <=> expected
       /\ last.op = "isEligibleForArbitraryTimeseriesDelete" => (last.bool <=> expected)
       /\ (TimePartitioned /\ request.multi /\ history.parses = 0) =>
              ~isEligibleForArbitraryTimeseriesDelete
       /\ ~history.isTimeseriesDelete => ~isEligibleForArbitraryTimeseriesDelete

C9_Witness ==
    /\ last.op = "isEligibleForArbitraryTimeseriesDelete"
    /\ last.bool
    /\ TimePartitioned
    /\ request.multi
    /\ history.residual

\* C10: yieldPolicy() returns NO_YIELD whenever the request's god flag is
\* set and the request's yield policy otherwise; its answer never changes
\* over the lifecycle, and calling it changes nothing of the instance.
C10_YieldPolicy ==
    /\ [](/\ request.god => yieldPolicy = "NO_YIELD"
          /\ ~request.god => yieldPolicy = request.yieldPolicy
          /\ last.op = "yieldPolicy" => last.policy = yieldPolicy)
    /\ [][/\ yieldPolicy' = yieldPolicy
          /\ last'.op = "yieldPolicy" =>
                 UNCHANGED << members, terminated, trace, findCommand, taken, history >>]_vars

C10_Witness ==
    /\ last.op = "yieldPolicy"
    /\ request.god
    /\ last.policy = "NO_YIELD"
    /\ request.yieldPolicy # "NO_YIELD"
    /\ history.released

\* C11, as stated: over any sequence of calls a canonicalizer result is
\* stored at most once, and parseRequest() never runs while a query is held
\* (read with a splitter that keeps its contract).
C11_Original ==
    NoDirectCall =>
        /\ history.stores <= 1
        /\ (AfterParse /\ history.heldAtParse /\ SplitKeptContract) =>
               (terminated /\ last.assertion = "dassert:72" /\ trace = <<>>)

\* C11, amended: in a debug build parseRequest() never runs while a query is
\* held (it aborts on entry, before any collaborator), so every stored
\* result went into an empty slot; each parseRequest() stores at most one
\* result.
C11_StoreIntoEmptySlot ==
    /\ kDebugBuild =>
           /\ (AfterParse /\ history.heldAtParse) =>
                  /\ terminated
                  /\ last.assertion = "dassert:72"
                  /\ trace = <<>>
                  /\ hasParsedQuery
           /\ (last.op = "parseQueryToCQ" /\ history.heldAtParse) =>
                  /\ terminated
                  /\ last.assertion = "dassert:100"
                  /\ trace = <<>>
                  /\ hasParsedQuery
           /\ history.lastParse = "ok" => ~history.heldAtParse
    /\ history.stores <= history.parses
    /\ (history.parses = 1 /\ hasParsedQuery) => history.stores = 1

C11_Witness ==
    /\ kDebugBuild
    /\ AfterParse
    /\ history.heldAtParse
    /\ terminated
    /\ history.stores = 1

\* C12: the filter parseRequest() passes to the canonicalizer is the
\* serialized bucket-level expression the split handed back for a
\* time-series delete, and the request's predicate unmodified otherwise;
\* sort, collation and hint are the request's in both cases.
C12_CanonicalizerInput ==
    ReachedCanonicalizer =>
        /\ TimePartitioned =>
               /\ history.split # NULL
               /\ findCommand.filter = history.split.bucketExpr.matchExpr
               /\ findCommand.filter # request.query
        /\ ~TimePartitioned => findCommand.filter = request.query
        /\ findCommand.sort = request.sort
        /\ findCommand.collation = request.collation
        /\ findCommand.hint = request.hint

C12_Witness ==
    /\ AfterParse
    /\ ReachedCanonicalizer
    /\ TimePartitioned
    /\ findCommand.filter = <<ClosedBucketGuard, [field |-> "control._id", op |-> "range"]>>
    /\ findCommand.collation = <<"en">>

\* The split of the last parseRequest() handed back no bucket-level expression.
SplitBrokeContract ==
    /\ AfterParse
    /\ Invoked(trace, "getMatchExprsForWrites")
    /\ history.split.bucketExpr = NULL

\* C13: when the split yields no bucket-level expression, parseRequest()
\* does not return: it fails the assertion of line 119 (tassert 7542400)
\* before the canonicalizer is invoked and stores nothing; so whenever a
\* time-series delete holds a query, the bucket-level expression is not
\* null.
C13_BucketExprNotNull ==
    /\ SplitBrokeContract =>
           /\ last.assertion = "tassert:119"
           /\ last.outcome # "returned"
           /\ last.status.code = "Location7542400"
           /\ ~ReachedCanonicalizer
           /\ findCommand = NULL
           /\ history.lastParse # "ok"
           /\ history.stores = 0
           /\ ~hasParsedQuery
    /\ (TimePartitioned /\ hasParsedQuery) =>
           /\ _timeseriesDeleteQueryExprs.bucketExpr # NULL
           /\ matchExprsForWrites.bucketExpr # NULL

C13_Witness ==
    /\ SplitBrokeContract
    /\ last.assertion = "tassert:119"
    /\ ~hasParsedQuery
    /\ history.split.residualExpr # NULL

\* C14: on the time-series path the expression counters are started before
\* the split and stopped right after it, so they are stopped when the
\* canonicalizer is invoked and at any error raised after the split; on the
\* fast path they are never started.
C14_ExpressionCounters ==
    /\ (AfterParse /\ Invoked(trace, "getMatchExprsForWrites")) =>
           /\ Len(trace) >= 4
           /\ trace[2] = "startExpressionCounters"
           /\ trace[3] = "getMatchExprsForWrites"
           /\ trace[4] = "stopExpressionCounters"
           /\ ~_expCtx.expressionCounters
           /\ ReachedCanonicalizer => trace[5] = "canonicalize"
           /\ history.lastParse = "ok" => ~_canonicalQuery.expCtx.expressionCounters
    /\ (ParseRan /\ TimePartitioned /\ FailedInvariant(request) = "") =>
           Invoked(trace, "getMatchExprsForWrites")
    /\ (AfterParse /\ history.lastParse = "idhack") =>
           /\ ~Invoked(trace, "startExpressionCounters")
           /\ ~_expCtx.expressionCounters
    /\ (ParseRan /\ ValidRequest /\ isSimpleIdQuery(request.query) /\ ~TimePartitioned) =>
           history.lastParse = "idhack"

C14_Witness ==
    /\ AfterParse
    /\ TimePartitioned
    /\ history.lastParse = "ok"
    /\ trace = << "resolveCollator", "startExpressionCounters", "getMatchExprsForWrites",
                  "stopExpressionCounters", "canonicalize" >>
    /\ ~_canonicalQuery.expCtx.expressionCounters

\* The step is a call of parseRequest().
ParseStep == last'.op = "parseRequest"

\* The step is a parseRequest() that gets past the assertions of lines 72-79
\* on a time-series delete that is not multi and has a sort, with a split
\* that keeps its contract.
SortedTimeseriesParseStep ==
    /\ ParseStep
    /\ TimePartitioned
    /\ SortedSingleDelete
    /\ ValidRequest
    /\ ~FailsEntryDassert
    /\ Invoked(trace', "getMatchExprsForWrites") => history'.split.bucketExpr # NULL

\* The same, on an instance whose caller has never called parseQueryToCQ()
\* itself.
SortedTimeseriesParseOnlyStep == SortedTimeseriesParseStep /\ NoDirectCall

\* C15, as stated: such a parseRequest() is rejected with InvalidOptions
\* before the split is invoked, so that no pair of expressions has been
\* produced and the members other than the ExpressionContext are as before.
C15_Original ==
    [][SortedTimeseriesParseOnlyStep =>
           /\ last'.status.code = "InvalidOptions"
           /\ ~Invoked(trace', "getMatchExprsForWrites")
           /\ _timeseriesDeleteQueryExprs' = _timeseriesDeleteQueryExprs
           /\ _canonicalQuery' = _canonicalQuery]_vars

\* C15, amended: such a parseRequest() is rejected with InvalidOptions after
\* the split has been invoked and the expression counters stopped, and before
\* the canonicalizer: the pair the split handed back is stored, the
\* ExpressionContext is the newly resolved one, and the held query and the
\* request are as before.
C15_RejectedAfterSplit ==
    [][SortedTimeseriesParseStep =>
           /\ last'.outcome = "threw"
           /\ last'.status = InvalidOptionsError
           /\ last'.assertion = "uassert:139"
           /\ ~terminated'
           /\ trace' = << "resolveCollator", "startExpressionCounters",
                          "getMatchExprsForWrites", "stopExpressionCounters" >>
           /\ findCommand' = NULL
           /\ _timeseriesDeleteQueryExprs' = history'.split
           /\ _timeseriesDeleteQueryExprs'.bucketExpr # NULL
           /\ _expCtx'.collator = resolveCollator(request.collation, collection).collator
           /\ _canonicalQuery' = _canonicalQuery
           /\ request' = request
           /\ collection' = collection]_vars

C15_Witness ==
    /\ AfterParse
    /\ last.assertion = "uassert:139"
    /\ Invoked(trace, "getMatchExprsForWrites")
    /\ ~ReachedCanonicalizer
    /\ _timeseriesDeleteQueryExprs = history.split
    /\ _timeseriesDeleteQueryExprs.bucketExpr # NULL
    /\ _timeseriesDeleteQueryExprs.residualExpr # NULL
    /\ ~hasParsedQuery

\* C16: an instance constructed with isTimeseriesDelete false is never a
\* time-series delete, whatever the collection is: no parseRequest() invokes
\* the split, a simple _id equality takes the fast path, a request that is
\* not multi and has a sort is not rejected and reaches the canonicalizer
\* with limit 1, the filter passed to the canonicalizer is the request's
\* predicate, and isEligibleForArbitraryTimeseriesDelete() is false.
C16_NotTimeseriesWithoutFlag ==
    ~history.isTimeseriesDelete =>
        /\ ~TimePartitioned
        /\ ~Invoked(trace, "getMatchExprsForWrites")
        /\ history.split = NULL
        /\ (ParseRan /\ ValidRequest /\ isSimpleIdQuery(request.query)) => FastPathTaken
        /\ (ParseRan /\ ValidRequest /\ ~isSimpleIdQuery(request.query)) =>
               /\ last.outcome = "returned"
               /\ ReachedCanonicalizer
               /\ SortedSingleDelete => findCommand.limit = 1
        /\ ReachedCanonicalizer => findCommand.filter = request.query
        /\ ~isEligibleForArbitraryTimeseriesDelete
        /\ last.op = "isEligibleForArbitraryTimeseriesDelete" => ~last.bool

C16_Witness ==
    /\ ~history.isTimeseriesDelete
    /\ collection.timeseriesOptions # NULL
    /\ AfterParse
    /\ SortedSingleDelete
    /\ history.lastParse = "ok"
    /\ findCommand.limit = 1
    /\ findCommand.filter = request.query

\* The step is a call of one of the four observers.
ObserverStep ==
    last'.op \in { "hasParsedQuery", "yieldPolicy",
                   "isEligibleForArbitraryTimeseriesDelete", "getRequest" }

\* C17: releaseParsedQuery() changes no member but _canonicalQuery, so
\* isEligibleForArbitraryTimeseriesDelete() and yieldPolicy() return after it
\* what they returned before it; hasParsedQuery(), yieldPolicy(),
\* isEligibleForArbitraryTimeseriesDelete() and getRequest() change no member
\* and return what the members say.
C17_ReleaseFrame ==
    [][/\ ReleaseStep =>
              /\ _timeseriesDeleteQueryExprs' = _timeseriesDeleteQueryExprs
              /\ _expCtx' = _expCtx
              /\ request' = request
              /\ collection' = collection
              /\ isEligibleForArbitraryTimeseriesDelete' =
                     isEligibleForArbitraryTimeseriesDelete
              /\ yieldPolicy' = yieldPolicy
       /\ ObserverStep =>
              /\ UNCHANGED << members, terminated, taken >>
              /\ last'.op = "hasParsedQuery" => last'.bool = hasParsedQuery
              /\ last'.op = "yieldPolicy" => last'.policy = yieldPolicy
              /\ last'.op = "isEligibleForArbitraryTimeseriesDelete" =>
                     last'.bool = isEligibleForArbitraryTimeseriesDelete
              /\ last'.op = "getRequest" => last'.bool]_vars

C17_Witness ==
    /\ last.op = "releaseParsedQuery"
    /\ last.outcome = "returned"
    /\ ~hasParsedQuery
    /\ taken # NULL
    /\ TimePartitioned
    /\ _timeseriesDeleteQueryExprs.residualExpr # NULL
    /\ _expCtx # NULL
    /\ isEligibleForArbitraryTimeseriesDelete
    /\ yieldPolicy = "NO_YIELD"

====
